---- MODULE Spec2Model ----
(***************************************************************************)
(* Model of the session tracker backend (src/app.py): the sessions table   *)
(* and the bot_heartbeats table of the SQLite store, and the four request  *)
(* handlers create_session, get_session, bot_heartbeat, get_bot_status.    *)
(*                                                                         *)
(* Text is modelled as a sequence of tokens (a URL is the sequence of its  *)
(* delimiters and words), so that parsing and serialisation are computed.  *)
(* A Python dict is a sequence of [k, v] pairs in insertion order, with    *)
(* unique keys.  A JSON scalar is a tagged record [t, v].                  *)
(***************************************************************************)
EXTENDS Integers, Sequences, FiniteSets, Bags, TLC

VARIABLES
    sessions,        \* the sessions table
    bot_heartbeats,  \* the bot_heartbeats table
    now,             \* the wall clock, what datetime.now() returns
    resp,            \* the last request handled and its response
    created,         \* history: the successful create calls, in order
    recorded,        \* history: bot_id -> instant of its last successful record
    prior,           \* history: the column the last record call replaced
    connections,     \* the connections a handler opened and left open
    calls,           \* worker -> the write call it is in the middle of
    lock,            \* the worker whose transaction holds the write lock
    commits,         \* history: the heartbeat writes in commit order
    begun            \* the number of write calls begun by the workers

in_flight == <<calls, lock, commits, begun>>

vars ==
    <<sessions, bot_heartbeats, now, resp, created, recorded, prior,
      connections, calls, lock, commits, begun>>

(***************************************************************************)
(* Bounds of the model.                                                    *)
(***************************************************************************)
MaxTicks == 2
MaxSec == 120
MaxFields == 2
MaxOpen == 2
MaxCalls == 2

(***************************************************************************)
(* JSON values, as json.loads produces them and json.dumps accepts them.   *)
(***************************************************************************)
JStr(s) == [t |-> "str", v |-> s]
JNum(s) == [t |-> "num", v |-> s]
JNull == [t |-> "null", v |-> <<>>]

\* dict.get(k): the value under k, None when k is not a key.
RECURSIVE DictGet(_, _)
DictGet(d, k) ==
    IF d = <<>> THEN JNull
    ELSE IF Head(d).k = k THEN Head(d).v ELSE DictGet(Tail(d), k)

\* d[k] = v on a dict: replaces the value of an existing key in place,
\* appends a new key at the end.
RECURSIVE DictSet(_, _, _)
DictSet(d, k, v) ==
    IF d = <<>> THEN <<[k |-> k, v |-> v]>>
    ELSE IF Head(d).k = k THEN <<[k |-> k, v |-> v]>> \o Tail(d)
    ELSE <<Head(d)>> \o DictSet(Tail(d), k, v)

\* Python truthiness of a JSON scalar (None and "" are falsy).
Truthy(j) == j.t # "null" /\ j.v # <<>>

(***************************************************************************)
(* json.dumps: a dict to JSON text.  A string is written between quotes,   *)
(* with a quote or a backslash inside it escaped by a backslash.           *)
(***************************************************************************)
Quote == "\""
Backslash == "\\"

RECURSIVE EscapeString(_)
EscapeString(s) ==
    IF s = <<>> THEN <<>>
    ELSE IF Head(s) \in {Quote, Backslash}
         THEN <<Backslash, Head(s)>> \o EscapeString(Tail(s))
         ELSE <<Head(s)>> \o EscapeString(Tail(s))

\* Variant: the string written between quotes without escaping.
DumpsStringRaw(s) == <<Quote>> \o s \o <<Quote>>

DumpsString(s) == <<Quote>> \o EscapeString(s) \o <<Quote>>

DumpsValue(j) ==
    CASE j.t = "str" -> DumpsString(j.v)
      [] j.t = "num" -> j.v
      [] OTHER -> <<"null">>

RECURSIVE DumpsItems(_)
DumpsItems(d) ==
    IF d = <<>> THEN <<>>
    ELSE DumpsString(Head(d).k) \o <<":">> \o DumpsValue(Head(d).v)
         \o (IF Len(d) > 1 THEN <<",">> ELSE <<>>)
         \o DumpsItems(Tail(d))

json_dumps(d) == <<"{">> \o DumpsItems(d) \o <<"}">>

(***************************************************************************)
(* json.loads: JSON text back to a dict.  Each scanner returns the value   *)
(* read and the position after it; ok is FALSE where json.loads raises     *)
(* JSONDecodeError.                                                        *)
(***************************************************************************)
Malformed == [ok |-> FALSE, val |-> <<>>, next |-> 0]

RECURSIVE ScanString(_, _, _)
ScanString(s, i, acc) ==
    IF i > Len(s) THEN Malformed
    ELSE IF s[i] = Quote THEN [ok |-> TRUE, val |-> acc, next |-> i + 1]
    ELSE IF s[i] = Backslash
         THEN IF i < Len(s)
              THEN ScanString(s, i + 2, Append(acc, s[i + 1]))
              ELSE Malformed
         ELSE ScanString(s, i + 1, Append(acc, s[i]))

ScanValue(s, i) ==
    IF i > Len(s) \/ s[i] \in {"{", "}", ",", ":"} THEN Malformed
    ELSE IF s[i] = Quote
    THEN LET r == ScanString(s, i + 1, <<>>)
         IN  [r EXCEPT !.val = JStr(@)]
    ELSE IF s[i] = "null" THEN [ok |-> TRUE, val |-> JNull, next |-> i + 1]
    ELSE [ok |-> TRUE, val |-> JNum(<<s[i]>>), next |-> i + 1]

\* A key, the colon and a value, from the opening quote of the key at i.
ScanItem(s, i) ==
    LET key == ScanString(s, i + 1, <<>>)
    IN  IF ~key.ok \/ key.next > Len(s) \/ s[key.next] # ":" THEN Malformed
        ELSE [ScanValue(s, key.next + 1) EXCEPT !.val = [k |-> key.val, v |-> @]]

RECURSIVE ScanItems(_, _, _)
ScanItems(s, i, acc) ==
    IF i > Len(s) THEN Malformed
    ELSE IF s[i] = "}"
         THEN IF i = Len(s) THEN [ok |-> TRUE, val |-> acc, next |-> i + 1]
              ELSE Malformed
    ELSE IF s[i] = ","
         THEN IF acc # <<>> /\ i < Len(s) /\ s[i + 1] = Quote
              THEN ScanItems(s, i + 1, acc)
              ELSE Malformed
    ELSE IF s[i] # Quote THEN Malformed
    ELSE LET item == ScanItem(s, i)
         IN  IF ~item.ok THEN Malformed
             ELSE ScanItems(s, item.next, DictSet(acc, item.val.k, item.val.v))

json_loads(s) ==
    IF s = <<>> \/ s[1] # "{" THEN Malformed ELSE ScanItems(s, 2, <<>>)

(***************************************************************************)
(* urllib.parse.urlparse(url).query and urllib.parse.parse_qs.             *)
(***************************************************************************)
\* Position of the first token of s, from i on, that is in the set stop;
\* Len(s) + 1 when there is none.
RECURSIVE Find(_, _, _)
Find(s, i, stop) ==
    IF i > Len(s) THEN Len(s) + 1
    ELSE IF s[i] \in stop THEN i ELSE Find(s, i + 1, stop)

\* The query component: what follows the first "?" up to a "#".
UrlQuery(url) ==
    LET frag == Find(url, 1, {"#"})
        path == SubSeq(url, 1, frag - 1)
        q    == Find(path, 1, {"?"})
    IN  SubSeq(path, q + 1, Len(path))

\* unquote of a name or value: "+" is a space and a percent escape is the
\* character it stands for.
Unquote(s) ==
    [i \in 1..Len(s) |->
        CASE s[i] = "+" -> " "
          [] s[i] = "%26" -> "&"
          [] OTHER -> s[i]]

\* parse_qs(query): the name/value fields of the query in order; a field
\* without "=" or with an empty value is dropped (keep_blank_values=False).
RECURSIVE ParseQsl(_)
ParseQsl(q) ==
    IF q = <<>> THEN <<>>
    ELSE LET amp   == Find(q, 1, {"&"})
             field == SubSeq(q, 1, amp - 1)
             eq    == Find(field, 1, {"="})
             name  == SubSeq(field, 1, eq - 1)
             value == SubSeq(field, eq + 1, Len(field))
             rest  == ParseQsl(SubSeq(q, amp + 1, Len(q)))
         IN  IF value = <<>> THEN rest
             ELSE <<[k |-> Unquote(name), v |-> Unquote(value)]>> \o rest

\* Variant: the last value of name ([-1] in place of [0]).
RECURSIVE LastParam(_, _)
LastParam(qsl, name) ==
    IF qsl = <<>> THEN JNull
    ELSE LET later == LastParam(Tail(qsl), name)
         IN  IF later # JNull THEN later
             ELSE IF Head(qsl).k = name THEN JStr(Head(qsl).v)
             ELSE JNull

\* query_params.get(name, [None])[0]: the first value of name, else None.
RECURSIVE FirstParam(_, _)
FirstParam(qsl, name) ==
    IF qsl = <<>> THEN JNull
    ELSE IF Head(qsl).k = name THEN JStr(Head(qsl).v)
    ELSE FirstParam(Tail(qsl), name)

(***************************************************************************)
(* datetime: an instant is [sec, usec].  isoformat writes the microseconds *)
(* only when they are not zero; the sqlite3 adapter and converter of the   *)
(* TIMESTAMP column type write and read the same layout.                   *)
(***************************************************************************)
Million == 1000000

\* datetime.isoformat(): the text of an instant.
isoformat(dt) ==
    IF dt.usec = 0 THEN <<ToString(dt.sec)>>
    ELSE <<ToString(dt.sec), ".", ToString(dt.usec)>>

\* Variant: the adapter writes the time of day without the date.
adapt_time_of_day(dt) ==
    IF dt.usec = 0 THEN <<dt.sec % 60>> ELSE <<dt.sec % 60, dt.usec>>

\* sqlite3 adapter for datetime (val.isoformat(" ")): the stored column.
adapt_datetime(dt) ==
    IF dt.usec = 0 THEN <<dt.sec>> ELSE <<dt.sec, dt.usec>>

\* sqlite3 converter of TIMESTAMP columns: the microseconds are zero when
\* the stored text has no fractional part.
convert_timestamp(col) ==
    [sec |-> col[1], usec |-> IF Len(col) = 2 THEN col[2] ELSE 0]

\* (a - b) as a timedelta, in microseconds.
Elapsed(a, b) == (a.sec - b.sec) * Million + (a.usec - b.usec)

\* timedelta(seconds=60) of get_bot_status.
FreshnessSeconds == 60

(***************************************************************************)
(* The SQLite tables: a table is the bag of its rows.                      *)
(***************************************************************************)
InsertRow(tbl, row) == tbl (+) SetToBag({row})

DeleteRows(tbl, rows) == [r \in BagToSet(tbl) \ rows |-> tbl[r]]

\* Variant: the SELECT without its WHERE clause.
SessionRowsAll(tbl, id) == BagToSet(tbl)

\* SELECT ... FROM sessions WHERE session_id = ?
SessionRows(tbl, id) == {r \in BagToSet(tbl) : r.session_id = id}

\* Variant: the SELECT without its WHERE clause.
HeartbeatRowsAll(tbl, bot) == BagToSet(tbl)

\* SELECT ... FROM bot_heartbeats WHERE bot_id = ?
HeartbeatRows(tbl, bot) == {r \in BagToSet(tbl) : r.bot_id = bot}

\* Variant: session_id declared without PRIMARY KEY.
NoPrimaryKey(tbl, session_id) == FALSE

\* Variant: INSERT OR REPLACE, the conflicting row is deleted.
OnConflictReplace(tbl, session_id) ==
    [r \in {x \in BagToSet(tbl) : x.session_id # session_id} |-> tbl[r]]

\* INSERT INTO sessions: session_id is the PRIMARY KEY, so a row with the
\* same session_id makes the statement fail with IntegrityError and the
\* table is left as it was.
PrimaryKeyConflict(tbl, session_id) == SessionRows(tbl, session_id) # {}

\* The conflict resolution of a plain INSERT is ABORT: the failed
\* statement changes nothing of the table.
OnConflict(tbl, session_id) == tbl

\* Variant: a plain INSERT into a table without PRIMARY KEY.
InsertHeartbeat(tbl, row) == InsertRow(tbl, row)

\* Variant: the write also refreshes the rows of the other bots.
InsertAndTouchAll(tbl, row) ==
    SetToBag({[r EXCEPT !.last_heartbeat = row.last_heartbeat] :
                 r \in BagToSet(tbl)} \cup {row})

\* INSERT OR REPLACE INTO bot_heartbeats: bot_id is the PRIMARY KEY, so
\* the rows of the same bot_id are deleted before the row is inserted.
InsertOrReplaceHeartbeat(tbl, row) ==
    InsertRow(DeleteRows(tbl, HeartbeatRows(tbl, row.bot_id)), row)

\* Variant: the other connections read the rows of a transaction that
\* has not committed.
UncommittedVisible(tbl, staged) == staged

\* What the other connections see of a table after a statement executed
\* in a transaction that has not committed: the table as it was.
Uncommitted(tbl, staged) == tbl

(***************************************************************************)
(* Responses.  escaped: an exception left the handler and the framework    *)
(* answered 500 in its place.  uuid: the identifier the handler drew from   *)
(* uuid.uuid4(), "" when it drew none.                                     *)
(***************************************************************************)
Response(op, req, status, body) ==
    [op |-> op, req |-> req, status |-> status, body |-> body,
     escaped |-> FALSE, uuid |-> ""]

Unhandled(op, req, exc) ==
    [op |-> op, req |-> req, status |-> 500, body |-> [exception |-> exc],
     escaped |-> TRUE, uuid |-> ""]

Drew(response, session_id) == [response EXCEPT !.uuid = session_id]

NoResponse == Response("none", "", 0, [none |-> TRUE])

(***************************************************************************)
(* create_session                                                          *)
(***************************************************************************)
\* bool(payload): None, 0, "", [] and {} are falsy.  A payload is the
\* value request.get_json() returns: kind "none" is None, "num" a non-zero
\* number, "array" a list of strings (keys holds its items), "object" a
\* dict (keys holds its keys).
PayloadTruthy(payload) ==
    CASE payload.kind = "none" -> FALSE
      [] payload.kind = "num" -> TRUE
      [] OTHER -> payload.keys # {}

\* key in payload, for a dict (its keys) or a list (its items).
PayloadHas(payload, key) == key \in payload.keys

\* str.strip(): without the leading and trailing blanks.
RECURSIVE LStrip(_)
LStrip(s) ==
    IF s # <<>> /\ Head(s) = " " THEN LStrip(Tail(s)) ELSE s

RECURSIVE RStrip(_)
RStrip(s) ==
    IF s # <<>> /\ s[Len(s)] = " " THEN RStrip(SubSeq(s, 1, Len(s) - 1)) ELSE s

Strip(s) == RStrip(LStrip(s))

\* The caller's address: the first comma-separated entry of the
\* X-Forwarded-For header when it is there (an absent header and an empty
\* one are both falsy), else request.remote_addr.
IpAddress(forwarded_for, remote_addr) ==
    IF forwarded_for # <<>>
    THEN Strip(SubSeq(forwarded_for, 1, Find(forwarded_for, 1, {","}) - 1))
    ELSE remote_addr

UtmKeys ==
    <<"utm_source", "utm_medium", "utm_campaign", "utm_content", "utm_term",
      "fbclid", "gclid", "ttclid">>

\* utm_params: every key of the fixed set, its first query value or None.
UtmParams(qsl) ==
    [i \in 1..Len(UtmKeys) |->
        [k |-> <<UtmKeys[i]>>, v |-> FirstParam(qsl, <<UtmKeys[i]>>)]]

\* Variant: the operands of the "or" exchanged, the cookie first.
CookieParamsCookieFirst(qsl, browser_data) ==
    LET fbclid == FirstParam(qsl, <<"fbclid">>)
        fbcCookie == DictGet(browser_data, <<"fbcCookie">>)
    IN  << [k |-> <<"fbp">>, v |-> DictGet(browser_data, <<"fbpCookie">>)],
           [k |-> <<"fbc">>,
            v |-> IF Truthy(fbcCookie) THEN fbcCookie ELSE fbclid] >>

\* cookie_params: fbp from the fbpCookie field, fbc the fbclid of the URL
\* or else the fbcCookie field.
CookieParams(qsl, browser_data) ==
    LET fbclid == FirstParam(qsl, <<"fbclid">>)
    IN  << [k |-> <<"fbp">>, v |-> DictGet(browser_data, <<"fbpCookie">>)],
           [k |-> <<"fbc">>,
            v |-> IF Truthy(fbclid) THEN fbclid
                  ELSE DictGet(browser_data, <<"fbcCookie">>)] >>

\* {**utm_params, **cookie_params}
TrackingData(full_url, browser_data) ==
    LET qsl == ParseQsl(UrlQuery(full_url))
    IN  UtmParams(qsl) \o CookieParams(qsl, browser_data)

ServerData(ip_address, at) ==
    << [k |-> <<"ipAddress">>, v |-> JStr(ip_address)],
       [k |-> <<"timestamp">>, v |-> JStr(isoformat(at))] >>

\* The row of the INSERT statement.
SessionRow(session_id, full_url, browser_data, server_data, tracking_data) ==
    [session_id    |-> session_id,
     full_url      |-> full_url,
     browser_data  |-> json_dumps(browser_data),
     server_data   |-> json_dumps(server_data),
     tracking_data |-> json_dumps(tracking_data)]

\* The handler: the response and the sessions table it leaves.
create_session(req, session_id, tbl, at) ==
    LET payload == req.payload
    IN  IF ~PayloadTruthy(payload)
        THEN [resp |-> Response("create", req, 400,
                                [error |-> "Payload incompleto"]),
              tbl |-> tbl]
        ELSE IF payload.kind = "num"
        THEN \* 'fullUrl' in 5 raises TypeError, outside any try block
             [resp |-> Unhandled("create", req, "TypeError"), tbl |-> tbl]
        ELSE IF ~PayloadHas(payload, "fullUrl")
                \/ ~PayloadHas(payload, "browserData")
        THEN [resp |-> Response("create", req, 400,
                                [error |-> "Payload incompleto"]),
              tbl |-> tbl]
        ELSE IF payload.kind # "object"
        THEN \* payload['fullUrl'] on a list raises TypeError
             [resp |-> Drew(Unhandled("create", req, "TypeError"), session_id),
              tbl |-> tbl]
        ELSE
        LET ip_address == IpAddress(req.forwarded_for, req.remote_addr)
            full_url == payload.fullUrl
            browser_data == payload.browserData
            row == SessionRow(session_id, full_url, browser_data,
                              ServerData(ip_address, at),
                              TrackingData(full_url, browser_data))
        IN  IF PrimaryKeyConflict(tbl, session_id)
            THEN \* sqlite3.IntegrityError: nothing is written
                 [resp |-> Drew(Response("create", req, 500,
                                         [error |-> "ID duplicado"]),
                                session_id),
                  tbl |-> OnConflict(tbl, session_id)]
            ELSE [resp |-> Drew(Response("create", req, 200,
                                         [session_id |-> session_id]),
                                session_id),
                  tbl |-> InsertRow(tbl, row)]

(***************************************************************************)
(* get_session                                                             *)
(***************************************************************************)
get_session(session_id, tbl) ==
    LET rows == SessionRows(tbl, session_id)
    IN  IF rows = {}
        THEN Response("read", session_id, 404,
                      [error |-> "Sessao nao encontrada"])
        ELSE LET row == CHOOSE r \in rows : TRUE
                 browser_data == json_loads(row.browser_data)
                 server_data == json_loads(row.server_data)
                 tracking_data == json_loads(row.tracking_data)
             IN  IF browser_data.ok /\ server_data.ok /\ tracking_data.ok
                 THEN Response("read", session_id, 200,
                               [fullUrl      |-> row.full_url,
                                browserData  |-> browser_data.val,
                                serverData   |-> server_data.val,
                                trackingData |-> tracking_data.val])
                 ELSE \* JSONDecodeError, caught by except Exception
                      Response("read", session_id, 500,
                               [error |-> "Erro interno do servidor"])

\* The sessions table get_session leaves: its one statement is a SELECT
\* and it never commits.
get_session_table(session_id, tbl) == tbl

(***************************************************************************)
(* bot_heartbeat                                                           *)
(***************************************************************************)
\* The handler: the response, the bot_heartbeats table it leaves and the
\* number of connections it opened and did not close.
bot_heartbeat(data, tbl, at) ==
    IF data.kind = "none"
    THEN \* data.get raises AttributeError before bot_id is bound; the
         \* except block formats bot_id and raises UnboundLocalError
         [resp |-> Unhandled("record", data, "UnboundLocalError"),
          tbl |-> tbl, open |-> 0]
    ELSE IF data.kind = "object_array_id"
    THEN \* cursor.execute cannot bind a list and raises ProgrammingError
         \* after the connect; the except block answers 500 and conn.close()
         \* on the path of the try is not reached
         [resp |-> Response("record", data, 500,
                            [error |-> "Erro interno do servidor"]),
          tbl |-> tbl, open |-> 1]
    ELSE LET bot_id == IF data.has_bot_id THEN data.bot_id ELSE ""
         IN  IF bot_id = ""
             THEN [resp |-> Response("record", data, 400,
                                     [error |-> "bot_id e necessario"]),
                   tbl |-> tbl, open |-> 0]
             ELSE [resp |-> Response("record", data, 200, [status |-> "ok"]),
                   tbl |-> InsertOrReplaceHeartbeat(tbl,
                              [bot_id |-> bot_id,
                               last_heartbeat |-> adapt_datetime(at)]),
                   open |-> 0]

(***************************************************************************)
(* get_bot_status                                                          *)
(***************************************************************************)
\* Variant: the comparison with <= in place of <.
IsActiveInclusive(at, last_heartbeat) ==
    Elapsed(at, last_heartbeat) <= FreshnessSeconds * Million

\* is_active: the last heartbeat is less than 60 seconds old.
IsActive(at, last_heartbeat) ==
    Elapsed(at, last_heartbeat) < FreshnessSeconds * Million

get_bot_status(bot_id, tbl, at) ==
    LET rows == HeartbeatRows(tbl, bot_id)
    IN  IF rows = {}
        THEN Response("status", bot_id, 200,
                      [active |-> FALSE, message |-> "Bot nao registrado"])
        ELSE LET row == CHOOSE r \in rows : TRUE
                 last_heartbeat == convert_timestamp(row.last_heartbeat)
             IN  Response("status", bot_id, 200,
                          [active |-> IsActive(at, last_heartbeat),
                           last_heartbeat |-> isoformat(last_heartbeat)])

\* Variant: the query writes the derived state, deleting a stale row.
get_bot_status_prune(bot_id, tbl, at) ==
    DeleteRows(tbl, {r \in HeartbeatRows(tbl, bot_id) :
                        ~IsActive(at, convert_timestamp(r.last_heartbeat))})

\* The bot_heartbeats table get_bot_status leaves: its one statement is a
\* SELECT and it never commits.
get_bot_status_table(bot_id, tbl, at) == tbl

(***************************************************************************)
(* The requests the model sends.                                           *)
(***************************************************************************)
SessionIds == {"s1", "s2"}
ReadIds == SessionIds \cup {"s3"}
BotIds == {"b1", "b2"}
StatusIds == BotIds \cup {"b3"}

UrlPlain == <<"https://x.test/">>
UrlUtm ==
    <<"https://x.test/", "?", "utm_source", "=", "ig", "&",
      "fbclid", "=", "abc123", "&", "utm_term", "=", "&",
      "utm_term", "=", "a", "+", "b", "&", "utm_term", "=", "c", "&",
      "gclid", "#", "frag">>

BrowserEmpty == <<>>
BrowserCookies ==
    << [k |-> <<"fbpCookie">>, v |-> JStr(<<"fb.1.111.222">>)],
       [k |-> <<"fbcCookie">>, v |-> JStr(<<"fb.1.333.444">>)],
       [k |-> <<"width">>, v |-> JNum(<<"1280">>)],
       [k |-> <<"userAgent">>,
        v |-> JStr(<<"Mozilla", Quote, "5.0", Backslash, ",", "}">>)],
       [k |-> <<"referrer">>, v |-> JNull],
       [k |-> <<"lang">>, v |-> JStr(<<>>)] >>

RemoteAddr == <<"9.9.9.9">>
Forwarded == <<" ", "1.1.1.1", " ", ",", " ", "2.2.2.2">>

Payload(kind, keys, full_url, browser_data) ==
    [kind |-> kind, keys |-> keys, fullUrl |-> full_url,
     browserData |-> browser_data]

Object(full_url, browser_data) ==
    Payload("object", {"fullUrl", "browserData"}, full_url, browser_data)

Request(payload, forwarded_for) ==
    [payload |-> payload, forwarded_for |-> forwarded_for,
     remote_addr |-> RemoteAddr]

ValidCreateRequests ==
    { Request(Object(UrlPlain, BrowserEmpty), <<>>),
      Request(Object(UrlUtm, BrowserCookies), Forwarded) }

InvalidCreateRequests ==
    { Request(Payload("none", {}, <<>>, <<>>), <<>>),
      Request(Payload("num", {}, <<>>, <<>>), <<>>),
      Request(Payload("object", {"fullUrl", "other"}, UrlUtm, <<>>), <<>>),
      Request(Payload("object", {"browserData", "other"}, <<>>,
                      BrowserCookies), Forwarded),
      Request(Payload("array", {"fullUrl", "browserData"}, <<>>, <<>>),
              <<>>) }

CreateRequests == ValidCreateRequests \cup InvalidCreateRequests

HeartbeatData(kind, has_bot_id, bot_id) ==
    [kind |-> kind, has_bot_id |-> has_bot_id, bot_id |-> bot_id]

HeartbeatRequests ==
    { HeartbeatData("none", FALSE, ""),
      HeartbeatData("object", FALSE, ""),
      HeartbeatData("object", TRUE, "") }
    \cup { HeartbeatData("object", TRUE, b) : b \in BotIds }

\* A JSON object whose bot_id is an array: truthy, and no SQLite value.
UnbindableRequests == { HeartbeatData("object_array_id", TRUE, "b1") }

\* The requests of the tracking-data register: a URL is a base followed by
\* up to MaxFields query fields, in every order and with repetition.
TrackingFields ==
    { <<"utm_source", "=", "ig">>,
      <<"utm_source", "=", "a", "+", "b">>,
      <<"utm_source", "=">>,
      <<"fbclid", "=", "x", "%26", "y">>,
      <<"fbclid", "=">>,
      <<"gclid">> }

RECURSIVE JoinFields(_)
JoinFields(fields) ==
    IF fields = <<>> THEN <<>>
    ELSE IF Len(fields) = 1 THEN Head(fields)
    ELSE Head(fields) \o <<"&">> \o JoinFields(Tail(fields))

TrackingUrls ==
    { IF fields = <<>> THEN UrlPlain
      ELSE UrlPlain \o <<"?">> \o JoinFields(fields) :
        fields \in UNION {[1..n -> TrackingFields] : n \in 0..MaxFields} }

TrackingBrowsers ==
    { BrowserEmpty,
      BrowserCookies,
      << [k |-> <<"fbcCookie">>, v |-> JStr(<<>>)] >>,
      << [k |-> <<"fbpCookie">>, v |-> JNum(<<"7">>)],
         [k |-> <<"fbcCookie">>, v |-> JStr(<<"fb.1.555.666">>)] >> }

TrackingRequests ==
    { Request(Object(full_url, browser_data), <<>>) :
        full_url \in TrackingUrls, browser_data \in TrackingBrowsers }

\* The workers that handle requests at the same time.
Procs == {"p1", "p2"}

Idle == [pc |-> "idle"]

\* The step by which the wall clock advances between two requests.
ClockStep == [sec |-> 30, usec |-> 0]

\* The finer steps of the clock, for the liveness register alone.
ClockSteps == {ClockStep, [sec |-> 59, usec |-> 500000]}

Later(at, step) ==
    LET usec == at.usec + step.usec
    IN  [sec |-> at.sec + step.sec + (usec \div Million),
         usec |-> usec % Million]

(***************************************************************************)
(* The state machine.                                                      *)
(***************************************************************************)
Init ==
    /\ sessions = EmptyBag
    /\ bot_heartbeats = EmptyBag
    /\ now = [sec |-> 0, usec |-> 0]
    /\ resp = NoResponse
    /\ created = <<>>
    /\ recorded = <<>>
    /\ prior = <<>>
    /\ connections = 0
    /\ calls = [p \in Procs |-> Idle]
    /\ lock = ""
    /\ commits = <<>>
    /\ begun = 0

\* POST /api/create-session; session_id is the uuid4 the handler draws.
CreateSession ==
    /\ \E req \in CreateRequests, session_id \in SessionIds :
          \E out \in {create_session(req, session_id, sessions, now)} :
              /\ sessions' = out.tbl
              /\ resp' = out.resp
              /\ created' =
                    IF out.resp.status = 200
                    THEN Append(created,
                                [session_id |-> out.resp.body.session_id,
                                 fullUrl |-> req.payload.fullUrl,
                                 browserData |-> req.payload.browserData])
                    ELSE created
    /\ prior' = <<>>
    /\ UNCHANGED <<bot_heartbeats, now, recorded, connections, in_flight>>

\* GET /api/get-session/<session_id>
GetSession ==
    /\ \E session_id \in ReadIds :
          /\ resp' = get_session(session_id, sessions)
          /\ sessions' = get_session_table(session_id, sessions)
    /\ prior' = <<>>
    /\ UNCHANGED <<bot_heartbeats, now, created, recorded, connections,
                   in_flight>>

\* POST /api/bot-heartbeat with a body of the set requests
Heartbeat(requests) ==
    /\ \E data \in requests :
          \E out \in {bot_heartbeat(data, bot_heartbeats, now)} :
              /\ bot_heartbeats' = out.tbl
              /\ resp' = out.resp
              /\ connections' = connections + out.open
              /\ IF out.resp.status = 200
                 THEN /\ recorded' = (data.bot_id :> now) @@ recorded
                      /\ prior' =
                            IF data.bot_id \in DOMAIN recorded
                            THEN adapt_datetime(recorded[data.bot_id])
                            ELSE <<>>
                 ELSE /\ recorded' = recorded
                      /\ prior' = <<>>
    /\ UNCHANGED <<sessions, now, created, in_flight>>

BotHeartbeat == Heartbeat(HeartbeatRequests)

\* GET /api/bot-status/<bot_id>
GetBotStatus ==
    /\ \E bot_id \in StatusIds :
          /\ resp' = get_bot_status(bot_id, bot_heartbeats, now)
          /\ bot_heartbeats' =
                get_bot_status_table(bot_id, bot_heartbeats, now)
    /\ prior' = <<>>
    /\ UNCHANGED <<sessions, now, created, recorded, connections, in_flight>>

\* Time passes between two requests.
Tick ==
    /\ Later(now, ClockStep).sec <= MaxTicks * ClockStep.sec
    /\ now' = Later(now, ClockStep)
    /\ prior' = <<>>
    /\ UNCHANGED <<sessions, bot_heartbeats, resp, created, recorded,
                   connections, in_flight>>

Next ==
    \/ CreateSession
    \/ GetSession
    \/ BotHeartbeat
    \/ GetBotStatus
    \/ Tick

Spec == Init /\ [][Next]_vars

\* The liveness register alone, on a finer and longer clock.
TickLiveness ==
    /\ \E step \in ClockSteps :
          /\ Later(now, step).sec <= MaxSec
          /\ now' = Later(now, step)
    /\ prior' = <<>>
    /\ UNCHANGED <<sessions, bot_heartbeats, resp, created, recorded,
                   connections, in_flight>>

NextLiveness ==
    \/ BotHeartbeat
    \/ GetBotStatus
    \/ TickLiveness

SpecLiveness == Init /\ [][NextLiveness]_vars

\* The tracking-data register: one session is created from a URL and a
\* browserData of the wider sets, then read.
CreateTracked ==
    /\ sessions = EmptyBag
    /\ \E req \in TrackingRequests, session_id \in SessionIds :
          \E out \in {create_session(req, session_id, sessions, now)} :
              /\ sessions' = out.tbl
              /\ resp' = out.resp
              /\ created' =
                    Append(created,
                           [session_id |-> out.resp.body.session_id,
                            fullUrl |-> req.payload.fullUrl,
                            browserData |-> req.payload.browserData])
    /\ prior' = <<>>
    /\ UNCHANGED <<bot_heartbeats, now, recorded, connections, in_flight>>

NextTracking ==
    \/ CreateTracked
    \/ GetSession

SpecTracking == Init /\ [][NextTracking]_vars

\* The connections register: the four handlers at one instant, the
\* heartbeat bodies including the one SQLite cannot bind.
BotHeartbeatWide ==
    /\ connections < MaxOpen
    /\ Heartbeat(HeartbeatRequests \cup UnbindableRequests)

NextConnections ==
    \/ CreateSession
    \/ GetSession
    \/ BotHeartbeatWide
    \/ GetBotStatus

SpecConnections == Init /\ [][NextConnections]_vars

(***************************************************************************)
(* Concurrent workers.  A write call is three steps: the handler samples   *)
(* datetime.now() while it builds the arguments of its statement; execute  *)
(* runs the statement in a transaction, which takes the write lock of the  *)
(* database; commit publishes the transaction and releases the lock.  A    *)
(* read is one SELECT on what is committed.                                *)
(***************************************************************************)
RecordRequests == { HeartbeatData("object", TRUE, b) : b \in BotIds }

ConcurrentCreateRequests ==
    { Request(Object(UrlUtm, BrowserCookies), Forwarded) }

\* The identifier uuid4 gives the concurrent creates: one, so that two
\* creates at the same time meet on the primary key.
ConcurrentIds == {"s1"}

\* bot_heartbeat up to the evaluation of (bot_id, datetime.now()).
BeginRecord(p) ==
    /\ calls[p] = Idle
    /\ begun < MaxCalls
    /\ \E data \in RecordRequests :
          calls' = [calls EXCEPT ![p] =
                      [pc |-> "execute", op |-> "record", req |-> data,
                       at |-> now, overtaken |-> FALSE]]
    /\ begun' = begun + 1
    /\ prior' = <<>>
    /\ UNCHANGED <<sessions, bot_heartbeats, now, resp, created, recorded,
                   connections, lock, commits>>

\* create_session up to sqlite3.connect: the identifier is drawn and the
\* server timestamp sampled.
BeginCreate(p) ==
    /\ calls[p] = Idle
    /\ begun < MaxCalls
    /\ \E req \in ConcurrentCreateRequests, session_id \in ConcurrentIds :
          calls' = [calls EXCEPT ![p] =
                      [pc |-> "execute", op |-> "create", req |-> req,
                       session_id |-> session_id, at |-> now]]
    /\ begun' = begun + 1
    /\ prior' = <<>>
    /\ UNCHANGED <<sessions, bot_heartbeats, now, resp, created, recorded,
                   connections, lock, commits>>

\* The handler of the call of worker p, run on the tables given.
Handled(p, stbl, htbl) ==
    IF calls[p].op = "create"
    THEN create_session(calls[p].req, calls[p].session_id, stbl, calls[p].at)
    ELSE bot_heartbeat(calls[p].req, htbl, calls[p].at)

\* cursor.execute: the statement runs in a transaction of its own; a
\* statement that fails (IntegrityError) ends the call at once.
Execute(p) ==
    /\ calls[p].pc = "execute"
    /\ lock = ""
    /\ \E out \in {Handled(p, sessions, bot_heartbeats)} :
          IF out.resp.status = 200
          THEN /\ lock' = p
               /\ calls' = [calls EXCEPT ![p].pc = "commit"]
               /\ sessions' =
                     IF calls[p].op = "create"
                     THEN Uncommitted(sessions, out.tbl) ELSE sessions
               /\ bot_heartbeats' =
                     IF calls[p].op = "record"
                     THEN Uncommitted(bot_heartbeats, out.tbl)
                     ELSE bot_heartbeats
               /\ resp' = resp
          ELSE /\ lock' = lock
               /\ calls' = [calls EXCEPT ![p] = Idle]
               /\ resp' = out.resp
               /\ UNCHANGED <<sessions, bot_heartbeats>>
    /\ prior' = <<>>
    /\ UNCHANGED <<now, created, recorded, connections, commits, begun>>

\* cursor.execute while another transaction holds the write lock, once the
\* busy timeout has run out: OperationalError (database is locked), caught
\* by except Exception.  create_session closes its connection in the
\* finally clause; bot_heartbeat does not.
Locked(p) ==
    /\ calls[p].pc = "execute"
    /\ lock \notin {"", p}
    /\ connections < MaxOpen
    /\ resp' = Response(calls[p].op, calls[p].req, 500,
                        [error |-> "Erro interno do servidor"])
    /\ connections' =
          IF calls[p].op = "record" THEN connections + 1 ELSE connections
    /\ calls' = [calls EXCEPT ![p] = Idle]
    /\ prior' = <<>>
    /\ UNCHANGED <<sessions, bot_heartbeats, now, created, recorded, lock,
                   commits, begun>>

\* conn.commit: the row is published and the lock released; the calls of
\* the other workers for the same bot, sampled already, are overtaken.
Commit(p) ==
    /\ calls[p].pc = "commit"
    /\ lock = p
    /\ \E out \in {Handled(p, sessions, bot_heartbeats)} :
          /\ resp' = out.resp
          /\ IF calls[p].op = "create"
             THEN /\ sessions' = out.tbl
                  /\ created' =
                        Append(created,
                               [session_id |-> calls[p].session_id,
                                fullUrl |-> calls[p].req.payload.fullUrl,
                                browserData |->
                                    calls[p].req.payload.browserData])
                  /\ calls' = [calls EXCEPT ![p] = Idle]
                  /\ UNCHANGED <<bot_heartbeats, recorded, commits>>
             ELSE /\ bot_heartbeats' = out.tbl
                  /\ recorded' =
                        (calls[p].req.bot_id :> calls[p].at) @@ recorded
                  /\ commits' =
                        Append(commits,
                               [bot_id |-> calls[p].req.bot_id,
                                at |-> calls[p].at,
                                overtaken |-> calls[p].overtaken])
                  /\ calls' =
                        [q \in Procs |->
                            IF q = p THEN Idle
                            ELSE IF /\ calls[q] # Idle
                                    /\ calls[q].op = "record"
                                    /\ calls[q].req.bot_id =
                                          calls[p].req.bot_id
                            THEN [calls[q] EXCEPT !.overtaken = TRUE]
                            ELSE calls[q]]
                  /\ UNCHANGED <<sessions, created>>
    /\ lock' = ""
    /\ prior' = <<>>
    /\ UNCHANGED <<now, connections, begun>>

NextConcurrent ==
    \/ \E p \in Procs : BeginRecord(p)
    \/ \E p \in Procs : BeginCreate(p)
    \/ \E p \in Procs : Execute(p)
    \/ \E p \in Procs : Locked(p)
    \/ \E p \in Procs : Commit(p)
    \/ GetSession
    \/ GetBotStatus
    \/ Tick

SpecConcurrent == Init /\ [][NextConcurrent]_vars

(***************************************************************************)
(* Properties of the session store.                                        *)
(***************************************************************************)
CreatedIds == {created[i].session_id : i \in 1..Len(created)}

\* C1: a read of an identifier that a successful create returned answers
\* 200 with the fullUrl of that create unchanged and a browserData equal to
\* the one of that create, whatever requests were handled in between.
CreateThenRead ==
    (resp.op = "read" /\ resp.req \in CreatedIds) =>
        \A i \in 1..Len(created) :
            created[i].session_id = resp.req =>
                /\ resp.status = 200
                /\ ~resp.escaped
                /\ resp.body.fullUrl = created[i].fullUrl
                /\ resp.body.browserData = created[i].browserData

\* A read of the first of two sessions, the one with the quoted and null
\* browser fields, after a heartbeat was recorded too.
CreateThenReadWitness ==
    /\ resp.op = "read"
    /\ resp.status = 200
    /\ Len(created) = 2
    /\ created[1].session_id = resp.req
    /\ resp.body.browserData = BrowserCookies
    /\ resp.body.fullUrl = UrlUtm
    /\ DOMAIN recorded # {}

\* C2: a read of an identifier that no successful create has returned
\* answers 404 NotFound: no record, no internal error.
ReadUnknownIsNotFound ==
    (resp.op = "read" /\ resp.req \notin CreatedIds) =>
        /\ resp.status = 404
        /\ ~resp.escaped
        /\ DOMAIN resp.body = {"error"}

\* A read of an identifier not yet created, while another session exists.
ReadUnknownWitness ==
    /\ resp.op = "read"
    /\ resp.req \in SessionIds
    /\ resp.req \notin CreatedIds
    /\ resp.status = 404
    /\ Len(created) = 1

\* C3: the identifiers returned by the successful creates of a history are
\* pairwise distinct, so an identifier once returned is never returned again.
DistinctIdentifiers ==
    \A i, j \in 1..Len(created) :
        i # j => created[i].session_id # created[j].session_id

\* Two successful creates with identical payloads.
DistinctIdentifiersWitness ==
    /\ Len(created) = 2
    /\ created[1].fullUrl = created[2].fullUrl
    /\ created[1].browserData = created[2].browserData

\* The keys of a payload: those of a JSON object, none for any other value.
PayloadKeys(payload) ==
    IF payload.kind = "object" THEN payload.keys ELSE {}

\* C4: a create whose payload lacks the fullUrl key or the browserData key
\* answers 400 InvalidInput, and a payload with both keys is not answered
\* 400, also when browserData is the empty mapping.
MissingKeyIsInvalidInput ==
    resp.op = "create" =>
        IF {"fullUrl", "browserData"} \subseteq PayloadKeys(resp.req.payload)
        THEN resp.status # 400
        ELSE resp.status = 400 /\ ~resp.escaped

\* C5: a create whose generated identifier is already in the sessions table
\* answers 500 with the duplicate-identifier error and leaves the table as
\* it was: the existing row unchanged, no row added, no second insert.
DuplicateIdentifier ==
    [][ ( /\ resp'.op = "create"
          /\ now' = now
          /\ resp'.uuid # ""
          /\ resp'.req.payload.kind = "object"
          /\ SessionRows(sessions, resp'.uuid) # {} )
        => ( /\ resp'.status = 500
             /\ ~resp'.escaped
             /\ resp'.body = [error |-> "ID duplicado"]
             /\ sessions' = sessions
             /\ created' = created ) ]_vars

\* A collision on the identifier of a session that holds another payload
\* than the one of the failed create.
DuplicateIdentifierWitness ==
    /\ resp.op = "create"
    /\ resp.status = 500
    /\ resp.body = [error |-> "ID duplicado"]
    /\ \E r \in SessionRows(sessions, resp.uuid) :
          r.full_url # resp.req.payload.fullUrl
    /\ BagCardinality(sessions) = 1

\* C6: no step removes or changes a row of the sessions table: every row
\* is there afterwards, once, with the same fields.
SessionsImmutable ==
    [][ \A r \in BagToSet(sessions) :
            /\ r \in BagToSet(sessions')
            /\ CopiesIn(r, sessions') = CopiesIn(r, sessions) ]_vars

\* A session created at the first instant is still stored two clock steps
\* later, after a second create, a heartbeat and a collision on its
\* identifier.
SessionsImmutableWitness ==
    /\ now.sec = 2 * ClockStep.sec
    /\ BagCardinality(sessions) = 2
    /\ DOMAIN recorded # {}
    /\ resp.op = "create"
    /\ resp.status = 500
    /\ \E r \in SessionRows(sessions, resp.uuid) :
          DictGet(json_loads(r.server_data).val, <<"timestamp">>)
              = JStr(isoformat([sec |-> 0, usec |-> 0]))

(***************************************************************************)
(* Properties of the liveness register.                                    *)
(***************************************************************************)
\* C7: a status query of a recorded bot answers active exactly when the
\* time since its last recorded heartbeat is strictly less than 60 seconds,
\* with the stored timestamp: active 30 s after, not active 60 s after nor
\* 120 s after.
FreshnessWindow ==
    [][ ( /\ resp'.op = "status"
          /\ now' = now
          /\ resp'.req \in DOMAIN recorded )
        => LET age == Elapsed(now, recorded[resp'.req])
           IN  /\ resp'.status = 200
               /\ resp'.body.active = (age < 60 * 1000000)
               /\ resp'.body.last_heartbeat = isoformat(recorded[resp'.req])
               /\ age = 30 * 1000000 => resp'.body.active
               /\ age = 60 * 1000000 => ~resp'.body.active
               /\ age = 120 * 1000000 => ~resp'.body.active ]_vars

\* A status query exactly 60 seconds after the last heartbeat: not active.
FreshnessWindowWitness ==
    /\ resp.op = "status"
    /\ resp.req \in DOMAIN recorded
    /\ Elapsed(now, recorded[resp.req]) = 60 * 1000000
    /\ "last_heartbeat" \in DOMAIN resp.body
    /\ resp.body.last_heartbeat = isoformat(recorded[resp.req])
    /\ ~resp.body.active

\* C8: a status query of a bot for which no record call has succeeded
\* answers 200 with active false and no last_heartbeat, and the bot has no
\* row afterwards.
UnregisteredIsInactive ==
    (resp.op = "status" /\ resp.req \notin DOMAIN recorded) =>
        /\ resp.status = 200
        /\ ~resp.escaped
        /\ resp.body.active = FALSE
        /\ "last_heartbeat" \notin DOMAIN resp.body
        /\ HeartbeatRows(bot_heartbeats, resp.req) = {}

\* A status query of an unrecorded bot while another bot is recorded.
UnregisteredIsInactiveWitness ==
    /\ resp.op = "status"
    /\ resp.req \in BotIds
    /\ resp.req \notin DOMAIN recorded
    /\ DOMAIN recorded # {}
    /\ resp.body.active = FALSE

\* C9: a bot has no row before its first successful record and exactly one
\* row from then on, whose timestamp is the instant of its last successful
\* record call.
OneHeartbeatPerBot ==
    \A b \in StatusIds :
        IF b \in DOMAIN recorded
        THEN \E r \in HeartbeatRows(bot_heartbeats, b) :
                /\ HeartbeatRows(bot_heartbeats, b) = {r}
                /\ CopiesIn(r, bot_heartbeats) = 1
                /\ convert_timestamp(r.last_heartbeat) = recorded[b]
        ELSE HeartbeatRows(bot_heartbeats, b) = {}

\* The second successful record of a bot, at a later instant than the
\* first, with the other bot recorded too.
OneHeartbeatPerBotWitness ==
    /\ resp.op = "record"
    /\ resp.status = 200
    /\ prior # <<>>
    /\ prior # adapt_datetime(now)
    /\ recorded[resp.req.bot_id] = now
    /\ DOMAIN recorded = BotIds

\* C10: a record call for a bot whose last successful record was at this
\* same instant leaves the bot_heartbeats table as it is.
RecordIdempotent ==
    [][ ( /\ resp'.op = "record"
          /\ resp'.status = 200
          /\ now' = now
          /\ resp'.req.bot_id \in DOMAIN recorded
          /\ recorded[resp'.req.bot_id] = now )
        => bot_heartbeats' = bot_heartbeats ]_vars

\* The replay of a record call at the instant of the previous one, the
\* instant having a fractional second.
RecordIdempotentWitness ==
    /\ resp.op = "record"
    /\ resp.status = 200
    /\ prior = adapt_datetime(now)
    /\ now.usec # 0

(***************************************************************************)
(* Error handling.                                                         *)
(***************************************************************************)
\* C11: every heartbeat request whose bot_id is missing or empty, whatever
\* the rest of the body, is answered 400 by the handler itself.
HeartbeatWithoutBotIdIsInvalidInput ==
    ( /\ resp.op = "record"
      /\ (~resp.req.has_bot_id \/ resp.req.bot_id = "") )
    => (resp.status = 400 /\ ~resp.escaped)

\* C12: no handler lets an exception escape: every response is one the
\* handler itself built.
NoExceptionEscapes == ~resp.escaped

(***************************************************************************)
(* Properties of the tracking data.                                        *)
(***************************************************************************)
DictKeys(d) == {d[i].k : i \in 1..Len(d)}

\* The value of the first field of the query q that is named name, empty
\* when that field has no value; null when no field has the name.
RECURSIVE FirstOccurrence(_, _)
FirstOccurrence(q, name) ==
    IF q = <<>> THEN JNull
    ELSE LET amp   == Find(q, 1, {"&"})
             field == SubSeq(q, 1, amp - 1)
             eq    == Find(field, 1, {"="})
         IN  IF Unquote(SubSeq(field, 1, eq - 1)) = name
             THEN JStr(Unquote(SubSeq(field, eq + 1, Len(field))))
             ELSE FirstOccurrence(SubSeq(q, amp + 1, Len(q)), name)

\* The first value that is not empty among the fields of q named name;
\* null when there is none.
RECURSIVE FirstNonEmpty(_, _)
FirstNonEmpty(q, name) ==
    IF q = <<>> THEN JNull
    ELSE LET amp   == Find(q, 1, {"&"})
             field == SubSeq(q, 1, amp - 1)
             eq    == Find(field, 1, {"="})
         IN  IF /\ Unquote(SubSeq(field, 1, eq - 1)) = name
                /\ eq < Len(field)
             THEN JStr(Unquote(SubSeq(field, eq + 1, Len(field))))
             ELSE FirstNonEmpty(SubSeq(q, amp + 1, Len(q)), name)

\* The trackingData of a created session as stored in its row and, when
\* the last request was a good read of it, as read back.
TrackingViews(c) ==
    {json_loads(r.tracking_data).val :
        r \in SessionRows(sessions, c.session_id)}
    \cup (IF resp.op = "read" /\ resp.req = c.session_id /\ resp.status = 200
          THEN {resp.body.trackingData} ELSE {})

\* C15: for every created session, fbp is the fbpCookie field of
\* browserData (null when absent) and fbc is the fbclid value of the URL
\* when it has one, else the fbcCookie field, else null.
CookieTracking ==
    \A i \in 1..Len(created) :
        \A t \in TrackingViews(created[i]) :
            LET browser_data == created[i].browserData
                fbclid == FirstNonEmpty(UrlQuery(created[i].fullUrl),
                                        <<"fbclid">>)
            IN  /\ {<<"fbp">>, <<"fbc">>} \subseteq DictKeys(t)
                /\ DictGet(t, <<"fbp">>) =
                      IF <<"fbpCookie">> \in DictKeys(browser_data)
                      THEN DictGet(browser_data, <<"fbpCookie">>)
                      ELSE JNull
                /\ DictGet(t, <<"fbc">>) =
                      IF fbclid # JNull THEN fbclid
                      ELSE IF <<"fbcCookie">> \in DictKeys(browser_data)
                      THEN DictGet(browser_data, <<"fbcCookie">>)
                      ELSE JNull

\* A session read back whose URL has an fbclid and whose browserData has
\* an fbcCookie: the fbclid is the fbc.
CookieTrackingWitness ==
    /\ resp.op = "read"
    /\ resp.status = 200
    /\ Len(created) = 1
    /\ created[1].session_id = resp.req
    /\ DictGet(created[1].browserData, <<"fbcCookie">>)
          = JStr(<<"fb.1.555.666">>)
    /\ DictGet(resp.body.trackingData, <<"fbc">>) = JStr(<<"x", "&", "y">>)
    /\ DictGet(resp.body.trackingData, <<"fbp">>) = JNum(<<"7">>)

\* C16 as stated: the stored and the read-back trackingData has every key
\* of the fixed set, each holding the first query-string value of its key,
\* null exactly when the key does not occur in the URL.
TrackingHoldsFirstValue ==
    \A i \in 1..Len(created) :
        \A t \in TrackingViews(created[i]) :
            \A n \in 1..Len(UtmKeys) :
                /\ <<UtmKeys[n]>> \in DictKeys(t)
                /\ DictGet(t, <<UtmKeys[n]>>) =
                      FirstOccurrence(UrlQuery(created[i].fullUrl),
                                      <<UtmKeys[n]>>)

\* C16: the stored and the read-back trackingData has every key of the
\* fixed set, each holding the first value of its key that is not empty
\* (also when the parameter repeats), or an explicit null when the key has
\* no value that is not empty; no key is dropped.
TrackingHoldsFirstNonEmptyValue ==
    \A i \in 1..Len(created) :
        \A t \in TrackingViews(created[i]) :
            \A n \in 1..Len(UtmKeys) :
                /\ <<UtmKeys[n]>> \in DictKeys(t)
                /\ DictGet(t, <<UtmKeys[n]>>) =
                      FirstNonEmpty(UrlQuery(created[i].fullUrl),
                                    <<UtmKeys[n]>>)

\* A session read back whose URL names utm_source twice, first without a
\* value: the second value is held, and the other seven keys are null.
TrackingHoldsFirstNonEmptyValueWitness ==
    /\ resp.op = "read"
    /\ resp.status = 200
    /\ Len(created) = 1
    /\ created[1].session_id = resp.req
    /\ created[1].fullUrl =
          UrlPlain \o <<"?", "utm_source", "=", "&",
                        "utm_source", "=", "a", "+", "b">>
    /\ DictGet(resp.body.trackingData, <<"utm_source">>) = JStr(<<"a", " ", "b">>)
    /\ \A n \in 2..Len(UtmKeys) :
          /\ <<UtmKeys[n]>> \in DictKeys(resp.body.trackingData)
          /\ DictGet(resp.body.trackingData, <<UtmKeys[n]>>) = JNull

(***************************************************************************)
(* Frame of the reads.                                                     *)
(***************************************************************************)
\* C17: a read or a status query, whatever it answers, leaves the sessions
\* table and the bot_heartbeats table as they were.
ReadsArePure ==
    [][ (now' = now /\ resp'.op \in {"read", "status"})
        => (sessions' = sessions /\ bot_heartbeats' = bot_heartbeats) ]_vars

\* A status query that found the bot stale, its row still holding the
\* instant of the record call, with a session stored too.
ReadsArePureWitness ==
    /\ resp.op = "status"
    /\ resp.req \in DOMAIN recorded
    /\ resp.body.active = FALSE
    /\ \E r \in HeartbeatRows(bot_heartbeats, resp.req) :
          convert_timestamp(r.last_heartbeat) = recorded[resp.req]
    /\ sessions # EmptyBag

(***************************************************************************)
(* The derived liveness state of a bot.                                    *)
(***************************************************************************)
\* What a status query of bot b would answer on table tbl at instant at.
LivenessOf(tbl, at, b) ==
    LET body == get_bot_status(b, tbl, at).body
    IN  IF "last_heartbeat" \notin DOMAIN body THEN "Unregistered"
        ELSE IF body.active THEN "Active"
        ELSE "Stale"

NoConnectionLeftOpen == connections = 0

(***************************************************************************)
(* Properties of the concurrent workers.                                   *)
(***************************************************************************)
\* The committed heartbeat writes of bot b, in commit order.
CommitsOf(b) ==
    LET OfBot(c) == c.bot_id = b
    IN  SelectSeq(commits, OfBot)

\* The instants held by the rows of bot b in table tbl.
StoredInstants(tbl, b) ==
    {convert_timestamp(r.last_heartbeat) : r \in HeartbeatRows(tbl, b)}

\* Worker p commits a record call for bot b in this step.
CommitsRecord(p, b) ==
    /\ calls[p].pc = "commit"
    /\ calls[p].op = "record"
    /\ calls[p].req.bot_id = b
    /\ calls'[p] = Idle

\* C13: whatever the interleaving of the record calls for a bot, the table
\* holds exactly one row for it once a call has committed, and the
\* timestamp of that row is the one sampled by the call that committed
\* last.
LastCommitWins ==
    \A b \in BotIds :
        LET mine == CommitsOf(b)
        IN  IF mine = <<>>
            THEN HeartbeatRows(bot_heartbeats, b) = {}
            ELSE \E r \in HeartbeatRows(bot_heartbeats, b) :
                    /\ HeartbeatRows(bot_heartbeats, b) = {r}
                    /\ CopiesIn(r, bot_heartbeats) = 1
                    /\ convert_timestamp(r.last_heartbeat)
                          = mine[Len(mine)].at

\* Two record calls for one bot that ran at the same time have both
\* completed; the one that committed last had sampled another instant
\* than the first, and its instant is the one stored.
LastCommitWinsWitness ==
    /\ \A p \in Procs : calls[p] = Idle
    /\ Len(commits) = 2
    /\ commits[1].bot_id = commits[2].bot_id
    /\ commits[2].overtaken
    /\ commits[2].at # commits[1].at
    /\ StoredInstants(bot_heartbeats, commits[2].bot_id) = {commits[2].at}

\* C14: no partial write is observable.  Every row of the two tables is
\* the complete row of a write that has committed, a read answers 404 or
\* the complete record of a committed create, and a status query answers
\* unregistered or the timestamp of a committed record call.
NoPartialWrite ==
    /\ \A r \in BagToSet(sessions) :
          \E i \in 1..Len(created) :
              /\ created[i].session_id = r.session_id
              /\ created[i].fullUrl = r.full_url
              /\ json_loads(r.browser_data).ok
              /\ json_loads(r.browser_data).val = created[i].browserData
              /\ json_loads(r.server_data).ok
              /\ DictKeys(json_loads(r.server_data).val)
                    = {<<"ipAddress">>, <<"timestamp">>}
              /\ json_loads(r.tracking_data).ok
              /\ Cardinality(DictKeys(json_loads(r.tracking_data).val))
                    = Len(UtmKeys) + 2
    /\ \A r \in BagToSet(bot_heartbeats) :
          \E i \in 1..Len(commits) :
              /\ commits[i].bot_id = r.bot_id
              /\ commits[i].at = convert_timestamp(r.last_heartbeat)
    /\ resp.op = "read" =>
          \/ resp.status = 404
          \/ /\ resp.status = 200
             /\ \E i \in 1..Len(created) :
                   /\ created[i].session_id = resp.req
                   /\ created[i].fullUrl = resp.body.fullUrl
                   /\ created[i].browserData = resp.body.browserData
             /\ DictKeys(resp.body.serverData)
                   = {<<"ipAddress">>, <<"timestamp">>}
             /\ Cardinality(DictKeys(resp.body.trackingData))
                   = Len(UtmKeys) + 2
    /\ (resp.op = "status" /\ "last_heartbeat" \in DOMAIN resp.body) =>
          \E i \in 1..Len(commits) :
              /\ commits[i].bot_id = resp.req
              /\ isoformat(commits[i].at) = resp.body.last_heartbeat

\* A status query answered with the previous timestamp of a bot, by then
\* stale, while a record call for that bot that sampled a later instant
\* has executed its statement and not yet committed.
NoPartialWriteWitness ==
    /\ resp.op = "status"
    /\ "last_heartbeat" \in DOMAIN resp.body
    /\ resp.body.active = FALSE
    /\ \E p \in Procs :
          /\ calls[p].pc = "commit"
          /\ calls[p].op = "record"
          /\ calls[p].req.bot_id = resp.req
          /\ isoformat(calls[p].at) # resp.body.last_heartbeat
          /\ StoredInstants(bot_heartbeats, resp.req) # {calls[p].at}

\* C20 as stated: across every interleaving of record calls the stored
\* last_heartbeat of a bot never decreases.
StoredNeverDecreases ==
    [][ \A b \in BotIds :
          \A old \in StoredInstants(bot_heartbeats, b) :
              \A new \in StoredInstants(bot_heartbeats', b) :
                  Elapsed(new, old) >= 0 ]_vars

\* C20: a record call samples its timestamp before its write commits, and
\* the stored last_heartbeat of a bot decreases only by the commit of a
\* call that another call for the same bot overtook, committing between
\* the sample and the commit of that call; calls that do not overlap never
\* decrease it.
DecreasesOnlyWhenOvertaken ==
    [][ \A b \in BotIds :
          /\ \A p \in Procs :
                CommitsRecord(p, b) => Elapsed(now, calls[p].at) >= 0
          /\ (\E old \in StoredInstants(bot_heartbeats, b) :
                 \E new \in StoredInstants(bot_heartbeats', b) :
                     Elapsed(new, old) < 0)
             => \E p \in Procs :
                   CommitsRecord(p, b) /\ calls[p].overtaken ]_vars

\* Two record calls for one bot, the second sampled later and not
\* overtaken: the stored instant has moved forward to the second.
DecreasesOnlyWhenOvertakenWitness ==
    /\ Len(commits) = 2
    /\ commits[1].bot_id = commits[2].bot_id
    /\ ~commits[2].overtaken
    /\ Elapsed(commits[2].at, commits[1].at) > 0
    /\ StoredInstants(bot_heartbeats, commits[2].bot_id) = {commits[2].at}

====
